---- MODULE Spec2Model ----
(***************************************************************************)
(* Model of necto/immich-slideshow's style-transfer scripts:               *)
(*   src/conversion/stylize.py   (PIL / pillow-heif decode path)           *)
(*   src/tensorflow/stylize.py   (tf.io / tf.image decode path)            *)
(*   src/conversion/fetch_model.py                                         *)
(*                                                                         *)
(* Tensors are float32 in the code, so the arithmetic of load_img and      *)
(* tensor_to_image is modelled in IEEE-754 binary32 (round to nearest,     *)
(* ties to even).  A float32 is the record [m, e] standing for m * 2^e,    *)
(* with m = 0 (zero) or 2^23 <= m < 2^24, so equal values are equal        *)
(* records.  All intermediate integers stay below 2^31.                    *)
(***************************************************************************)
EXTENDS Integers, Sequences, FiniteSets, TLC

----------------------------------------------------------------------------
(* Bounds of the model *)

\* image sides 1..MaxDim are enumerated exhaustively by the unit harness
MaxDim == 44
\* unit values a/b with 0 <= a <= b <= MaxDen are fed to tensor_to_image
MaxDen == 12
\* leading batch sizes 0..MaxBatch are fed to tensor_to_image
MaxBatch == 3
\* command lines carry 0..MaxArgs positional arguments
MaxArgs == 4

----------------------------------------------------------------------------
(* IEEE-754 binary32 arithmetic *)

F32Zero == [m |-> 0, e |-> 0]

RECURSIVE BitLen(_)
BitLen(n) == IF n = 0 THEN 0 ELSE 1 + BitLen(n \div 2)

\* round q * 2^k + r (0 <= r < 2^k, half = 2^(k-1)) to the integer q or q+1
RoundEven(q, r, half, sticky) ==
    IF r > half \/ (r = half /\ sticky) \/ (r = half /\ ~sticky /\ q % 2 = 1)
    THEN q + 1 ELSE q

\* the float32 with mantissa q (q <= 2^24) and exponent e
Pack(q, e) == IF q = 2^24 THEN [m |-> 2^23, e |-> e + 1] ELSE [m |-> q, e |-> e]

\* the float32 equal to the integer n, 0 <= n < 2^24 (exact)
IntToF32(n) ==
    IF n = 0 THEN F32Zero
    ELSE LET s == 24 - BitLen(n) IN [m |-> n * 2^s, e |-> 0 - s]

\* binary long division: quotient bits of a / b until the quotient has 26 bits
RECURSIVE LongDiv(_, _, _, _)
LongDiv(q, r, b, k) ==
    IF q >= 2^25 THEN [q |-> q, r |-> r, k |-> k]
    ELSE IF 2 * r >= b THEN LongDiv(2 * q + 1, 2 * r - b, b, k + 1)
         ELSE LongDiv(2 * q, 2 * r, b, k + 1)

\* float32 quotient of the integers a / b, 0 <= a < 2^24, 0 < b < 2^24
DivF32(a, b) ==
    IF a = 0 THEN F32Zero
    ELSE LET d == LongDiv(a \div b, a % b, b, 0)
             q == RoundEven(d.q \div 4, d.q % 4, 2, d.r # 0)
         IN  Pack(q, 2 - d.k)

\* float32 product of the float32 f and the integer n, 0 <= n < 2^13
MulF32(f, n) ==
    IF f.m = 0 \/ n = 0 THEN F32Zero
    ELSE LET mh == f.m \div 4096
             ml == f.m % 4096
             hi == n * mh + ((n * ml) \div 4096)
             lo == (n * ml) % 4096
             bits == BitLen(hi) + 12
             k  == bits - 24
         IN  IF k <= 0
             THEN [m |-> (hi * 4096 + lo) * 2^(0 - k), e |-> f.e + k]
             ELSE IF k <= 12
             THEN Pack(RoundEven(hi * 2^(12 - k) + (lo \div 2^k), lo % 2^k,
                                 2^(k - 1), FALSE), f.e + k)
             ELSE Pack(RoundEven(hi \div 2^(k - 12),
                                 (hi % 2^(k - 12)) * 4096 + lo,
                                 2^(k - 1), FALSE), f.e + k)

\* conversion of a float32 to an integer type: truncation toward zero
TruncF32(f) ==
    IF f.m = 0 THEN 0
    ELSE IF f.e >= 0 THEN f.m * 2^(f.e)
    ELSE IF 0 - f.e >= 24 THEN 0
    ELSE f.m \div 2^(0 - f.e)

F32One == IntToF32(1)

\* f <= 1.0 for a float32 f >= 0
LeqOne(f) == f.m = 0 \/ f.e < -23 \/ f = F32One

Max(a, b) == IF a >= b THEN a ELSE b
Min(a, b) == IF a <= b THEN a ELSE b
----------------------------------------------------------------------------
(* Data: paths, files on disk, decoded images, tensors *)

\* the two stylize scripts, named after their directories
Variants == {"conversion", "tensorflow"}

\* A path is a stem and an extension, the extension a sequence of characters.
Path(stem, ext) == [stem |-> stem, ext |-> ext]

\* str.lower() on the characters that occur in the modelled paths
LowerChar(c) ==
    CASE c = "H" -> "h" [] c = "E" -> "e" [] c = "I" -> "i" [] c = "C" -> "c"
      [] c = "J" -> "j" [] c = "P" -> "p" [] c = "G" -> "g" [] OTHER -> c

Lower(s) == [i \in 1..Len(s) |-> LowerChar(s[i])]

\* mutation: the extension test without .lower()
EndsWithHeic_nolower(path) == path.ext = <<"h", "e", "i", "c">>

\* path_to_img.lower().endswith(".heic")
EndsWithHeic(path) == Lower(path.ext) = <<"h", "e", "i", "c">>

\* no file at the path
NoFile == [fmt |-> "absent"]

\* An image file: container format, pixel mode, height, width and the
\* channel values of its pixels (the modelled images are of a single colour,
\* which bilinear resizing returns unchanged).
ImageFile(fmt, mode, h, w, px) ==
    [fmt |-> fmt, mode |-> mode, h |-> h, w |-> w, px |-> px]

\* a file that is no image at all
Garbage == [fmt |-> "text"]

\* The files the runs can be pointed at.
DiskTable == <<
    <<Path("photo", <<"j","p","g">>),  ImageFile("JPEG", "RGB", 3024, 4032, <<3, 0, 255>>)>>,
    <<Path("IMG_1", <<"H","E","I","C">>), ImageFile("HEIF", "RGB", 3024, 4032, <<3, 0, 255>>)>>,
    <<Path("icon", <<"p","n","g">>),   ImageFile("PNG", "RGBA", 41, 41, <<255, 3, 0, 77>>)>>,
    <<Path("gray", <<"p","n","g">>),   ImageFile("PNG", "L", 30, 54, <<3>>)>>,
    <<Path("strip", <<"j","p","g">>),  ImageFile("JPEG", "RGB", 1, 2000, <<0, 0, 0>>)>>,
    <<Path("scan", <<"h","e","i","f">>), ImageFile("HEIF", "RGB", 41, 41, <<255, 3, 0>>)>>,
    <<Path("fake", <<"h","e","i","c">>), ImageFile("JPEG", "RGB", 30, 54, <<3, 3, 3>>)>>,
    <<Path("notes", <<"t","x","t">>),  Garbage>>,
    <<Path("gone", <<"j","p","g">>),   NoFile>> >>

Paths == {DiskTable[i][1] : i \in 1..Len(DiskTable)}

Disk == [p \in Paths |-> LET i == CHOOSE j \in 1..Len(DiskTable) : DiskTable[j][1] = p
                         IN  DiskTable[i][2]]

\* formats the general-purpose decoders (PIL.Image.open, tf.image.decode_image)
\* identify from the file's content
StdFormats == {"JPEG", "PNG"}

\* where the output image can be asked to go; PIL picks the writer from the
\* extension and knows none for "xyz"
OutPaths == {Path("out", <<"p","n","g">>), Path("out", <<"x","y","z">>)}

SaveFormats == {<<"p","n","g">>, <<"j","p","g">>}

Ok(v)   == [ok |-> TRUE, val |-> v]
Err(e)  == [ok |-> FALSE, err |-> e]

\* A decoded image: the array shape and the channel values of its pixels.
Array(shape, px) == [shape |-> shape, px |-> px]

----------------------------------------------------------------------------
(* load_img *)

\* pillow_heif.read_heif + Image.frombytes: decodes HEIF content only
read_heif(file) ==
    IF file.fmt = "absent" THEN Err("FileNotFoundError")
    ELSE IF file.fmt = "HEIF" THEN Ok([mode |-> file.mode, h |-> file.h, w |-> file.w, px |-> file.px])
    ELSE Err("pillow_heif: not a HEIF file")

\* PIL.Image.open: identifies the standard formats by content; the HEIF
\* opener is never registered
Image_open(file) ==
    IF file.fmt = "absent" THEN Err("FileNotFoundError")
    ELSE IF file.fmt \in StdFormats THEN Ok([mode |-> file.mode, h |-> file.h, w |-> file.w, px |-> file.px])
    ELSE Err("UnidentifiedImageError")

\* img.convert("RGB"): grey is replicated, alpha is dropped
convert_RGB(img) ==
    [img EXCEPT !.mode = "RGB",
                !.px = IF img.mode = "L" THEN <<img.px[1], img.px[1], img.px[1]>>
                       ELSE <<img.px[1], img.px[2], img.px[3]>>]

\* mutation: the array shape taken from PIL's (width, height) size
DecodeConversion_size(path) ==
    LET file == Disk[path]
        opened == IF EndsWithHeic(path) THEN read_heif(file) ELSE Image_open(file)
    IN  IF ~opened.ok THEN opened
        ELSE LET rgb == convert_RGB(opened.val)
             IN  Ok(Array(<<rgb.w, rgb.h, 3>>, rgb.px))

\* the decode half of the conversion variant's load_img: an (h, w, 3) array
DecodeConversion(path) ==
    LET file == Disk[path]
        opened == IF EndsWithHeic(path) THEN read_heif(file) ELSE Image_open(file)
    IN  IF ~opened.ok THEN opened
        ELSE LET rgb == convert_RGB(opened.val)
             IN  Ok(Array(<<rgb.h, rgb.w, 3>>, rgb.px))

\* which decoder the conversion variant's load_img hands the path to
DecoderUsed(path) == IF EndsWithHeic(path) THEN "pillow_heif" ELSE "PIL"

\* tf.io.read_file + tf.image.decode_image(channels=3)
DecodeTensorflow(path) ==
    LET file == Disk[path]
    IN  IF file.fmt = "absent" THEN Err("NotFoundError")
        ELSE IF file.fmt \in StdFormats
        THEN Ok(Array(<<file.h, file.w, 3>>,
                      IF file.mode = "L" THEN <<file.px[1], file.px[1], file.px[1]>>
                      ELSE <<file.px[1], file.px[2], file.px[3]>>))
        ELSE Err("InvalidArgumentError: unknown image file format")

Decode(variant, path) ==
    IF variant = "conversion" THEN DecodeConversion(path) ELSE DecodeTensorflow(path)

\* uint8 channel value to float32 in [0,1]:
\*   conversion: tf.convert_to_tensor(img, tf.float32) / 255.0
\*   tensorflow: tf.image.convert_image_dtype = cast * (1. / 255)
Normalize(variant, p) ==
    IF variant = "conversion" THEN DivF32(p, 255) ELSE MulF32(DivF32(1, 255), p)

\* shape = tf.cast(tf.shape(img)[:-1], tf.float32)
SpatialShape(shape) == SubSeq(shape, 1, Len(shape) - 1)

\* long_dim = tf.reduce_max(shape)  /  max(shape)
long_dim(shape) == Max(shape[1], shape[2])

\* scale = max_dim / long_dim
scale(max_dim, shape) == DivF32(max_dim, long_dim(shape))

\* new_shape = tf.cast(shape * scale, tf.int32)
new_shape(shape, max_dim) ==
    [i \in 1..Len(shape) |-> TruncF32(MulF32(scale(max_dim, shape), shape[i]))]

\* mutation: a resize that accepts any output size
resize_unchecked(img, size) == Ok(Array(size \o <<img.shape[Len(img.shape)]>>, img.px))

\* tf.image.resize(img, new_shape): the resize kernel rejects an output size
\* that is not positive
resize(img, size) ==
    IF \E i \in 1..Len(size) : size[i] <= 0
    THEN Err("InvalidArgumentError: output dimensions must be positive")
    ELSE Ok(Array(size \o <<img.shape[Len(img.shape)]>>, img.px))

\* mutation: no batch dimension added
newaxis_none(img) == img

\* img[tf.newaxis, :]
newaxis(img) == Array(<<1>> \o img.shape, img.px)

\* load_img after decoding: normalise, resize, add the batch dimension
LoadDecoded(variant, arr, max_dim) ==
    LET img == Array(arr.shape, [i \in 1..Len(arr.px) |-> Normalize(variant, arr.px[i])])
        resized == resize(img, new_shape(SpatialShape(img.shape), max_dim))
    IN  IF ~resized.ok THEN resized ELSE Ok(newaxis(resized.val))

load_img(variant, path_to_img, max_dim) ==
    LET decoded == Decode(variant, path_to_img)
    IN  IF ~decoded.ok THEN decoded ELSE LoadDecoded(variant, decoded.val, max_dim)

----------------------------------------------------------------------------
(* tensor_to_image *)

\* mutation: scaling by 256
ToUint8_256(v) == TruncF32(MulF32(v, 256)) % 256

\* np.array(tensor * 255, dtype=np.uint8), one channel value
ToUint8(v) == TruncF32(MulF32(v, 255)) % 256

\* mutation: height and width taken in PIL's (width, height) order
tensor_to_image_transposed(tensor) ==
    LET arr == Array(tensor.shape, [i \in 1..Len(tensor.px) |-> ToUint8(tensor.px[i])])
    IN  IF Len(arr.shape) > 3 /\ arr.shape[1] # 1 THEN Err("AssertionError")
        ELSE LET img == IF Len(arr.shape) > 3 THEN Array(Tail(arr.shape), arr.px) ELSE arr
             IN  IF Len(img.shape) # 3 THEN Err("TypeError: Cannot handle this data type")
                 ELSE Ok([mode |-> "RGB", h |-> img.shape[2], w |-> img.shape[1], px |-> img.px])

tensor_to_image(tensor) ==
    LET arr == Array(tensor.shape, [i \in 1..Len(tensor.px) |-> ToUint8(tensor.px[i])])
    IN  IF Len(arr.shape) > 3 /\ arr.shape[1] # 1 THEN Err("AssertionError")
        ELSE LET img == IF Len(arr.shape) > 3 THEN Array(Tail(arr.shape), arr.px) ELSE arr
             IN  IF Len(img.shape) # 3 THEN Err("TypeError: Cannot handle this data type")
                 ELSE Ok([mode |-> "RGB", h |-> img.shape[1], w |-> img.shape[2], px |-> img.px])
----------------------------------------------------------------------------
(* The stylization model *)

ContentMaxDim == 1024
StyleMaxDim == 450

\* channel values that occur in the files of DiskTable, after RGB conversion
PixelValues == {0, 3, 255}

\* the float32 values a loaded tensor can hold
NormDomain == {Normalize(v, p) : v \in Variants, p \in PixelValues}

\* The saved model is opaque: any deterministic function of the content
\* tensor's values into [0,1], or a model whose call raises.
HubModels ==
    {[fn |-> f, raises |-> FALSE] : f \in [NormDomain -> {F32Zero, F32One}]}
    \cup {[fn |-> [x \in NormDomain |-> F32Zero], raises |-> TRUE]}

\* hub_model(content, style)[0]: the stylized batch, shaped like the content batch
hub_model(hub_, content, style) ==
    IF hub_.raises THEN Err("model call raised")
    ELSE Ok(Array(content.shape, [i \in 1..Len(content.px) |-> hub_.fn[content.px[i]]]))

----------------------------------------------------------------------------
(* State *)

VARIABLES
    argv,       \* sys.argv of the stylize runs: script name, then the arguments
    hub,        \* the model saved under /app/saved_model
    model_dir,  \* what is at /app/saved_model
    run,        \* per stylize variant: the state of its run on argv
    fetch,      \* the state of fetch_model.py
    call,       \* unit harness: the function applied and its arguments
    ret         \* unit harness: its result

vars == <<argv, hub, model_dir, run, fetch, call, ret>>

UsageMsg == "Usage: python3 stylize.py <content_image_path> <style_image_path> <output_image_path>"
SavedMsg == "Model saved to /app/saved_model"

NoTensor == Array(<<>>, <<>>)
NoImage == [mode |-> "none", h |-> 0, w |-> 0, px |-> <<>>]

\* a stylize process that has not started
InitRun == [pc |-> "check_args", steps |-> <<>>, stdout |-> <<>>, exit |-> -1,
            error |-> "", hub_model |-> FALSE,
            content_image |-> NoTensor, style_image |-> NoTensor,
            stylized_image |-> NoTensor, combined |-> NoImage,
            out |-> NoImage, writes |-> 0]

\* command lines: every choice of three arguments, and one command line of
\* each other length
Filler == <<"stylize.py", Path("photo", <<"j","p","g">>), Path("gray", <<"p","n","g">>),
            Path("out", <<"p","n","g">>)>>

ArgvSet ==
    {<<"stylize.py", c, s, o>> : c \in Paths, s \in Paths, o \in OutPaths}
    \cup {[i \in 1..(n + 1) |-> Filler[Min(i, 4)]] : n \in (0..MaxArgs) \ {3}}

IdleFetch == [pc |-> "idle", stdout |-> <<>>, runs |-> 0]
NoCall == [fn |-> "none", variant |-> "none", shape |-> <<>>, px |-> <<>>, val |-> <<>>, max_dim |-> 0]
Pending == [ok |-> FALSE, err |-> "pending"]

----------------------------------------------------------------------------
(* stylize.py, module level: one action per statement that can end the run *)

\* mutation: the exception is swallowed and the statement tried again
Crash_retry(r, step, e) == [r EXCEPT !.steps = Append(@, step), !.error = e]

\* an uncaught exception: traceback, exit status 1
Crash(r, step, e) ==
    [r EXCEPT !.pc = "crashed", !.steps = Append(@, step), !.exit = 1, !.error = e]

Step(r, step, next) == [r EXCEPT !.pc = next, !.steps = Append(@, step)]

\* mutation: only too few arguments are rejected
CheckArgs_lt(v) ==
    /\ run[v].pc = "check_args"
    /\ run' = [run EXCEPT ![v] =
                 IF Len(argv) < 4
                 THEN [@ EXCEPT !.pc = "exited", !.steps = Append(@, "check_args"),
                                !.stdout = Append(@, UsageMsg), !.exit = 1]
                 ELSE [@ EXCEPT !.pc = "load_model", !.steps = Append(@, "check_args")]]
    /\ UNCHANGED <<argv, hub, model_dir, fetch, call, ret>>

\* if len(sys.argv) != 4: print(usage); exit(1)
CheckArgs(v) ==
    /\ run[v].pc = "check_args"
    /\ run' = [run EXCEPT ![v] =
                 IF Len(argv) # 4
                 THEN [@ EXCEPT !.pc = "exited", !.steps = Append(@, "check_args"),
                                !.stdout = Append(@, UsageMsg), !.exit = 1]
                 ELSE Step(@, "check_args", "load_model")]
    /\ UNCHANGED <<argv, hub, model_dir, fetch, call, ret>>

\* hub_model = tf.saved_model.load('/app/saved_model')
LoadModel(v) ==
    /\ run[v].pc = "load_model"
    /\ run' = [run EXCEPT ![v] =
                 IF model_dir = "saved_model"
                 THEN [Step(@, "load_model", "load_content") EXCEPT !.hub_model = TRUE]
                 ELSE Crash(@, "load_model", "OSError: SavedModel file does not exist")]
    /\ UNCHANGED <<argv, hub, model_dir, fetch, call, ret>>

\* content_image = load_img(content_path, max_dim=1024)
LoadContent(v) ==
    /\ run[v].pc = "load_content"
    /\ LET r == load_img(v, argv[2], ContentMaxDim)
       IN  run' = [run EXCEPT ![v] =
                     IF r.ok THEN [Step(@, "load_content", "load_style") EXCEPT !.content_image = r.val]
                     ELSE Crash(@, "load_content", r.err)]
    /\ UNCHANGED <<argv, hub, model_dir, fetch, call, ret>>

\* style_image = load_img(style_path, max_dim=450)
LoadStyle(v) ==
    /\ run[v].pc = "load_style"
    /\ LET r == load_img(v, argv[3], StyleMaxDim)
       IN  run' = [run EXCEPT ![v] =
                     IF r.ok THEN [Step(@, "load_style", "call_model") EXCEPT !.style_image = r.val]
                     ELSE Crash(@, "load_style", r.err)]
    /\ UNCHANGED <<argv, hub, model_dir, fetch, call, ret>>

\* stylized_image = hub_model(tf.constant(content_image), tf.constant(style_image))[0]
CallModel(v) ==
    /\ run[v].pc = "call_model"
    /\ LET r == hub_model(hub, run[v].content_image, run[v].style_image)
       IN  run' = [run EXCEPT ![v] =
                     IF r.ok THEN [Step(@, "call_model", "to_image") EXCEPT !.stylized_image = r.val]
                     ELSE Crash(@, "call_model", r.err)]
    /\ UNCHANGED <<argv, hub, model_dir, fetch, call, ret>>

\* combined = tensor_to_image(stylized_image)
ToImage(v) ==
    /\ run[v].pc = "to_image"
    /\ LET r == tensor_to_image(run[v].stylized_image)
       IN  run' = [run EXCEPT ![v] =
                     IF r.ok THEN [Step(@, "to_image", "save") EXCEPT !.combined = r.val]
                     ELSE Crash(@, "to_image", r.err)]
    /\ UNCHANGED <<argv, hub, model_dir, fetch, call, ret>>

\* combined.save(sys.argv[3]); the process then ends with status 0
Save(v) ==
    /\ run[v].pc = "save"
    /\ run' = [run EXCEPT ![v] =
                 IF argv[4].ext \in SaveFormats
                 THEN [Step(@, "save", "done") EXCEPT !.out = run[v].combined,
                                                      !.writes = @ + 1, !.exit = 0]
                 ELSE Crash(@, "save", "ValueError: unknown file extension")]
    /\ UNCHANGED <<argv, hub, model_dir, fetch, call, ret>>

Init ==
    /\ argv \in ArgvSet
    /\ hub \in HubModels
    /\ model_dir \in {"saved_model", "absent"}
    /\ run = [v \in Variants |-> InitRun]
    /\ fetch = IdleFetch
    /\ call = NoCall
    /\ ret = Pending

Next ==
    \E v \in Variants :
        \/ CheckArgs(v)
        \/ LoadModel(v)
        \/ LoadContent(v)
        \/ LoadStyle(v)
        \/ CallModel(v)
        \/ ToImage(v)
        \/ Save(v)

Spec == Init /\ [][Next]_vars
----------------------------------------------------------------------------
(* fetch_model.py, run up to MaxFetchRuns times on the same machine *)

MaxFetchRuns == 4

\* what can be at /app/saved_model: nothing, a plain file, an empty
\* directory, a complete saved model, or a directory half written
DirStates == {"absent", "file", "empty_dir", "saved_model", "partial"}

\* mutation: the directory is created before the download
FetchDownload_mkdir ==
    /\ fetch.pc = "download"
    /\ \E ok \in BOOLEAN :
          fetch' = [fetch EXCEPT !.pc = IF ok THEN "makedirs" ELSE "failed"]
    /\ model_dir' = IF model_dir = "absent" THEN "empty_dir" ELSE model_dir
    /\ UNCHANGED <<argv, hub, run, call, ret>>

\* hub_model = hub.load(<url>): the download either returns or raises
FetchDownload ==
    /\ fetch.pc = "download"
    /\ \E ok \in BOOLEAN :
          fetch' = [fetch EXCEPT !.pc = IF ok THEN "makedirs" ELSE "failed"]
    /\ UNCHANGED <<argv, hub, model_dir, run, call, ret>>

\* os.makedirs(local_model_path, exist_ok=True)
FetchMakedirs ==
    /\ fetch.pc = "makedirs"
    /\ IF model_dir = "file"
       THEN /\ fetch' = [fetch EXCEPT !.pc = "failed"]
            /\ UNCHANGED model_dir
       ELSE /\ fetch' = [fetch EXCEPT !.pc = "save"]
            /\ model_dir' = IF model_dir = "absent" THEN "empty_dir" ELSE model_dir
    /\ UNCHANGED <<argv, hub, run, call, ret>>

\* tf.saved_model.save(hub_model, local_model_path): a disk failure raises
\* and leaves whatever had been written by then
FetchSave ==
    /\ fetch.pc = "save"
    /\ \/ /\ fetch' = [fetch EXCEPT !.pc = "print"]
          /\ model_dir' = "saved_model"
       \/ /\ fetch' = [fetch EXCEPT !.pc = "failed"]
          /\ model_dir' \in {model_dir, "partial"}
    /\ UNCHANGED <<argv, hub, run, call, ret>>

\* print(f"Model saved to {local_model_path}")
FetchAnnounce ==
    /\ fetch.pc = "print"
    /\ fetch' = [fetch EXCEPT !.pc = "done", !.stdout = Append(@, SavedMsg)]
    /\ UNCHANGED <<argv, hub, model_dir, run, call, ret>>

\* the script is started again
FetchAgain ==
    /\ fetch.pc \in {"done", "failed"}
    /\ fetch.runs < MaxFetchRuns
    /\ fetch' = [fetch EXCEPT !.pc = "download", !.runs = @ + 1]
    /\ UNCHANGED <<argv, hub, model_dir, run, call, ret>>

InitFetch ==
    /\ argv = <<"fetch_model.py">>
    /\ hub = CHOOSE h \in HubModels : h.raises
    /\ model_dir \in DirStates
    /\ run = [v \in Variants |-> InitRun]
    /\ fetch = [pc |-> "download", stdout |-> <<>>, runs |-> 1]
    /\ call = NoCall
    /\ ret = Pending

NextFetch ==
    \/ FetchDownload
    \/ FetchMakedirs
    \/ FetchSave
    \/ FetchAnnounce
    \/ FetchAgain

SpecFetch == InitFetch /\ [][NextFetch]_vars

----------------------------------------------------------------------------
(* Unit harness: load_img and tensor_to_image applied to enumerated inputs *)

\* sides beyond MaxDim: around both max_dim values, and camera-sized
BigDims == {451, 1025, 2000, 4032}

Dims == (1..MaxDim) \cup BigDims

MaxDims == {ContentMaxDim, StyleMaxDim}

\* float32 values in [0,1]
UnitValues ==
    {DivF32(q[1], q[2]) : q \in {x \in (0..MaxDen) \X (1..MaxDen) : x[1] <= x[2]}}

LoadCall(variant, h, w, p, max_dim) ==
    [fn |-> "load_img", variant |-> variant, shape |-> <<h, w, 3>>,
     px |-> <<p, p, p>>, val |-> <<>>, max_dim |-> max_dim]

TensorCall(shape, v) ==
    [fn |-> "tensor_to_image", variant |-> "none", shape |-> shape,
     px |-> <<>>, val |-> <<v, v, v>>, max_dim |-> 0]

Calls ==
    {LoadCall(v, h, w, 0, m) : v \in Variants, h \in Dims, w \in Dims, m \in MaxDims}
    \cup {LoadCall(v, 2, 3, p, m) : v \in Variants, p \in 0..255, m \in MaxDims}
    \cup {TensorCall(<<2, 3, 3>>, v) : v \in UnitValues}
    \cup {TensorCall(<<b, 2, 3, 3>>, v) : b \in 0..MaxBatch, v \in UnitValues}

\* load_img on a decoded (h, w, 3) array
Call_load_img ==
    /\ call.fn = "load_img"
    /\ ret = Pending
    /\ ret' = LoadDecoded(call.variant, Array(call.shape, call.px), call.max_dim)
    /\ UNCHANGED <<argv, hub, model_dir, run, fetch, call>>

Call_tensor_to_image ==
    /\ call.fn = "tensor_to_image"
    /\ ret = Pending
    /\ ret' = tensor_to_image(Array(call.shape, call.val))
    /\ UNCHANGED <<argv, hub, model_dir, run, fetch, call>>

InitFn ==
    /\ argv = <<"stylize.py">>
    /\ hub = CHOOSE h \in HubModels : h.raises
    /\ model_dir = "absent"
    /\ run = [v \in Variants |-> InitRun]
    /\ fetch = IdleFetch
    /\ call \in Calls
    /\ ret = Pending

NextFn ==
    \/ Call_load_img
    \/ Call_tensor_to_image

SpecFn == InitFn /\ [][NextFn]_vars
\* the stylize runs and the unit harness, side by side
InitAll == Init \/ InitFn

NextAll == Next \/ NextFn

SpecAll == InitAll /\ [][NextAll]_vars

----------------------------------------------------------------------------
(* Properties *)

\* the statements of the module level of stylize.py, in program order
Pipeline == <<"check_args", "load_model", "load_content", "load_style",
              "call_model", "to_image", "save">>

IsPrefix(s, t) == Len(s) <= Len(t) /\ SubSeq(t, 1, Len(s)) = s

Terminated(r) == r.pc \in {"exited", "crashed", "done"}

Last(s) == s[Len(s)]

\* C1: a stylize run whose number of positional arguments is not 3 does
\* nothing but print the usage message and exit with status 1: it never
\* loads the model, reads no image and writes no output file.
C1_UsageExit ==
    Len(argv) # 4 =>
        \A v \in Variants :
            /\ run[v].pc \in {"check_args", "exited"}
            /\ run[v].pc = "exited" =>
                   /\ run[v].exit = 1
                   /\ run[v].stdout = <<UsageMsg>>
                   /\ run[v].steps = <<"check_args">>
            /\ ~run[v].hub_model
            /\ run[v].content_image = NoTensor
            /\ run[v].style_image = NoTensor
            /\ run[v].out = NoImage
            /\ run[v].writes = 0

\* both scripts have rejected a command line with more than 3 arguments
C1_Witness ==
    /\ Len(argv) > 4
    /\ \A v \in Variants : run[v].pc = "exited" /\ run[v].exit = 1

\* C2: the steps of a run are taken once each and in program order, the
\* write of the output file is the last of them and happens at most once,
\* and a run that failed at an earlier step has run no later step and has
\* written no output file.
C2_SaveLastNoRetry ==
    \A v \in Variants :
        LET r == run[v] IN
        /\ IsPrefix(r.steps, Pipeline)
        /\ r.writes <= 1
        /\ (r.writes = 1 \/ r.out # NoImage) =>
               r.pc = "done" /\ r.steps = Pipeline /\ r.out = r.combined
        /\ r.pc = "crashed" =>
               /\ r.exit = 1
               /\ r.out = NoImage /\ r.writes = 0
               /\ Last(r.steps) \in {"load_model"} => ~r.hub_model
               /\ Last(r.steps) \in {"load_model", "load_content"} =>
                      r.content_image = NoTensor
               /\ Last(r.steps) \in {"load_model", "load_content", "load_style"} =>
                      r.style_image = NoTensor
               /\ Last(r.steps) \in {"load_model", "load_content", "load_style",
                                     "call_model"} => r.stylized_image = NoTensor
               /\ Last(r.steps) # "save" => r.combined = NoImage

\* a run that died reading a content path that holds no image
C2_Witness ==
    \E v \in Variants :
        /\ Len(argv) = 4
        /\ Disk[argv[2]] = Garbage
        /\ run[v].pc = "crashed"
        /\ Last(run[v].steps) = "load_content"
        /\ run[v].out = NoImage

\* the shape load_img resizes a decoded (h, w, 3) array to, in exact arithmetic
ExactShape(shape, max_dim) ==
    LET L == Max(shape[1], shape[2])
    IN  <<(shape[1] * max_dim) \div L, (shape[2] * max_dim) \div L>>

LoadReturned == call.fn = "load_img" /\ ret # Pending

TensorReturned == call.fn = "tensor_to_image" /\ ret # Pending

\* C3: load_img resizes every image to a shape whose longer side is max_dim
\* exactly and whose shorter side is floor(shorter * max_dim / longer).
C3_LongerSideIsMaxDim ==
    LoadReturned =>
        new_shape(SpatialShape(call.shape), call.max_dim)
            = ExactShape(call.shape, call.max_dim)

\* C4: a successful run saves an image that has the height and width of the
\* resized content tensor (content resized with max_dim 1024), a longer side
\* of at most 1024, and tensor_to_image changes neither height nor width.
C4_OutputHasResizedContentShape ==
    /\ \A v \in Variants :
          LET r == run[v] IN
          /\ r.pc \in {"save", "done"} =>
                 /\ r.combined.h = r.stylized_image.shape[2]
                 /\ r.combined.w = r.stylized_image.shape[3]
          /\ r.pc = "done" =>
                 /\ r.out.h = r.content_image.shape[2]
                 /\ r.out.w = r.content_image.shape[3]
                 /\ Max(r.out.h, r.out.w) <= ContentMaxDim
                 /\ Min(r.out.h, r.out.w) >= 1
    /\ (LoadReturned /\ ret.ok) =>
          Max(ret.val.shape[2], ret.val.shape[3]) <= call.max_dim
    /\ (TensorReturned /\ ret.ok) =>
          /\ ret.val.h = call.shape[Len(call.shape) - 2]
          /\ ret.val.w = call.shape[Len(call.shape) - 1]

\* a finished run whose output is sized like neither input file nor like
\* the style tensor
C4_Witness ==
    \E v \in Variants :
        /\ run[v].pc = "done"
        /\ <<run[v].out.h, run[v].out.w>> # <<Disk[argv[2]].h, Disk[argv[2]].w>>
        /\ <<run[v].out.h, run[v].out.w>> # <<Disk[argv[3]].h, Disk[argv[3]].w>>
        /\ <<run[v].out.h, run[v].out.w>>
               # <<run[v].style_image.shape[2], run[v].style_image.shape[3]>>

\* C5: tensor_to_image strips a leading batch dimension exactly when it is 1
\* and fails its assertion for any other batch size; in the pipeline the
\* assertion never fails, because every tensor load_img returns, and the
\* stylized tensor, has a leading dimension of 1.
C5_BatchOfOne ==
    /\ TensorReturned =>
          IF Len(call.shape) > 3 /\ call.shape[1] # 1
          THEN ret = Err("AssertionError")
          ELSE /\ ret.ok
               /\ <<ret.val.h, ret.val.w>> = <<call.shape[Len(call.shape) - 2],
                                               call.shape[Len(call.shape) - 1]>>
    /\ (LoadReturned /\ ret.ok) =>
          Len(ret.val.shape) = 4 /\ ret.val.shape[1] = 1
    /\ \A v \in Variants :
          LET r == run[v] IN
          /\ \A t \in {r.content_image, r.style_image, r.stylized_image} :
                 t # NoTensor => Len(t.shape) = 4 /\ t.shape[1] = 1
          /\ r.error # "AssertionError"
          /\ (r.pc = "crashed" => Last(r.steps) # "to_image")

\* a run in which tensor_to_image has converted the stylized batch
C5_Witness ==
    \E v \in Variants :
        /\ run[v].pc \in {"save", "done"}
        /\ run[v].stylized_image.shape[1] = 1
        /\ run[v].combined # NoImage
\* the spellings of the HEIC extension among the modelled paths
HeicExts == {<<"h","e","i","c">>, <<"H","E","I","C">>}

HeicNamed(path) == path.ext \in HeicExts

IsImageFile(file) == file.fmt \in StdFormats \cup {"HEIF"}

\* the two files hold the same picture once reduced to three channels
SamePicture(f, g) ==
    /\ IsImageFile(f) /\ IsImageFile(g)
    /\ <<f.h, f.w>> = <<g.h, g.w>>
    /\ convert_RGB(f).px = convert_RGB(g).px

\* the conversion variant has executed load_img on its content path
ContentLoadTried == Len(run["conversion"].steps) >= 3

\* C6 as stated: in the conversion variant the HEIF decoder is used exactly
\* when the standard decoder cannot handle the (image) file.
C6_HeifDecoderIffStandardFails ==
    (ContentLoadTried /\ IsImageFile(Disk[argv[2]])) =>
        (DecoderUsed(argv[2]) = "pillow_heif" <=> ~Image_open(Disk[argv[2]]).ok)

\* C6 amended: the conversion variant picks the HEIF decoder by the path's
\* extension (".heic" in any case), whatever the file holds, and the
\* general-purpose decoder otherwise, so a misnamed file fails to load;
\* whichever decoder ran, the tensor has 3 channels, and a .heic HEIF file
\* and a standard-format file holding the same picture load to equal tensors.
C6_DecoderByExtension ==
    LET r == run["conversion"]
        path == argv[2]
        file == Disk[path]
    IN  ContentLoadTried =>
          /\ r.content_image # NoTensor =>
                 /\ Len(r.content_image.px) = 3
                 /\ r.content_image.shape[4] = 3
                 /\ IF HeicNamed(path) THEN file.fmt = "HEIF" ELSE file.fmt \in StdFormats
          /\ (r.pc = "crashed" /\ Last(r.steps) = "load_content" /\ IsImageFile(file)) =>
                 \/ r.error = "InvalidArgumentError: output dimensions must be positive"
                 \/ HeicNamed(path) /\ file.fmt # "HEIF"
                       /\ r.error = "pillow_heif: not a HEIF file"
                 \/ ~HeicNamed(path) /\ file.fmt = "HEIF"
                       /\ r.error = "UnidentifiedImageError"
          /\ (r.style_image # NoTensor /\ SamePicture(file, Disk[argv[3]])) =>
                 /\ r.style_image.px = r.content_image.px
                 /\ load_img("conversion", argv[3], ContentMaxDim) = Ok(r.content_image)

\* the conversion variant has loaded a .HEIC file and a JPEG of the same picture
C6_Witness ==
    /\ Len(argv) = 4
    /\ HeicNamed(argv[2]) /\ Disk[argv[2]].fmt = "HEIF"
    /\ ~HeicNamed(argv[3]) /\ Disk[argv[3]].fmt = "JPEG"
    /\ SamePicture(Disk[argv[2]], Disk[argv[3]])
    /\ run["conversion"].style_image # NoTensor

\* C7: fetch_model.py ends a successful run with the model directory in
\* place and the model saved in it; it prints 'Model saved' only after the
\* save succeeded, never in a run that failed; the download leaves the
\* filesystem alone, and makedirs creates the directory only if it was
\* absent and leaves an existing directory in place.
C7_FetchSavesThenPrints ==
    /\ [](/\ fetch.pc \in {"print", "done"} => model_dir = "saved_model"
          /\ fetch.pc = "done" =>
                 fetch.stdout # <<>> /\ Last(fetch.stdout) = SavedMsg
          /\ fetch.pc = "save" => model_dir \in DirStates \ {"absent", "file"}
          /\ Len(fetch.stdout) <= fetch.runs)
    /\ [][/\ fetch'.stdout # fetch.stdout =>
                 /\ fetch.pc = "print" /\ fetch'.pc = "done"
                 /\ model_dir = "saved_model"
                 /\ fetch'.stdout = Append(fetch.stdout, SavedMsg)
          /\ fetch'.pc = "failed" => fetch'.stdout = fetch.stdout
          /\ fetch.pc = "download" => model_dir' = model_dir
          /\ fetch.pc = "makedirs" =>
                 model_dir' = IF model_dir = "absent" THEN "empty_dir" ELSE model_dir
          /\ model_dir' # model_dir => fetch.pc \in {"makedirs", "save"}]_vars

\* a first run that found no directory and finished
C7_Witness ==
    /\ fetch.pc = "done"
    /\ fetch.runs = 1
    /\ model_dir = "saved_model"
    /\ fetch.stdout = <<SavedMsg>>

\* C8: load_img maps every 8-bit channel value into [0,1], 0 to 0 and 255
\* to 1 (p/255 in the conversion variant), and tensor_to_image maps every
\* value in [0,1] to the integer trunc(v*255) in 0..255, 0 to 0 and 1 to
\* 255, without wrapping.
C8_PixelRange ==
    /\ (LoadReturned /\ ret.ok) =>
          \A i \in 1..3 :
             LET p == call.px[i]
                 v == ret.val.px[i]
             IN  /\ v.m >= 0 /\ LeqOne(v)
                 /\ (p = 0 <=> v = F32Zero)
                 /\ (p = 255 <=> v = F32One)
                 /\ call.variant = "conversion" => v = DivF32(p, 255)
                 /\ TruncF32(MulF32(v, 255)) = p
    /\ (TensorReturned /\ ret.ok) =>
          \A i \in 1..3 :
             LET v == call.val[i]
                 q == ret.val.px[i]
             IN  /\ q \in 0..255
                 /\ q = TruncF32(MulF32(v, 255))
                 /\ (v = F32Zero => q = 0)
                 /\ (v = F32One <=> q = 255)

\* tensor_to_image has converted the value 1.0 to 255
C8_Witness ==
    /\ TensorReturned /\ ret.ok
    /\ call.val[1] = F32One
    /\ ret.val.px[1] = 255

\* both scripts decode the file at the path to the same pixels
BothDecode(path) == Disk[path].fmt \in StdFormats /\ ~HeicNamed(path)

\* neither script can decode the file at the path
NeitherDecodes(path) ==
    \/ Disk[path].fmt \in {"absent", "text"}
    \/ Disk[path].fmt = "HEIF" /\ ~HeicNamed(path)

\* the premise of C9: each input is decoded alike by the two scripts
SameDecodedInputs ==
    Len(argv) = 4 =>
        \A i \in 2..3 : BothDecode(argv[i]) \/ NeitherDecodes(argv[i])

BothTerminated == \A v \in Variants : Terminated(run[v])

\* the two runs have got equally far with equal resize shapes
SameProgress ==
    LET a == run["conversion"]
        b == run["tensorflow"]
    IN  /\ (Len(a.steps) <= Len(b.steps) => IsPrefix(a.steps, b.steps))
        /\ (Len(b.steps) <= Len(a.steps) => IsPrefix(b.steps, a.steps))
        /\ (a.content_image # NoTensor /\ b.content_image # NoTensor) =>
               a.content_image.shape = b.content_image.shape
        /\ (a.style_image # NoTensor /\ b.style_image # NoTensor) =>
               a.style_image.shape = b.style_image.shape
        /\ BothTerminated =>
               /\ a.steps = b.steps
               /\ a.pc = b.pc
               /\ a.exit = b.exit
               /\ a.stdout = b.stdout
               /\ <<a.out.h, a.out.w>> = <<b.out.h, b.out.w>>

\* C9 as stated: on the same command line, inputs decoded alike and the
\* same model, the two scripts take the same steps, compute the same resize
\* shapes and end alike: same exit status and the same saved image.
C9_SameOutcome ==
    SameDecodedInputs =>
        /\ SameProgress
        /\ BothTerminated => run["conversion"].out = run["tensorflow"].out

\* C9 amended: the scripts also scale pixels differently (x / 255.0 against
\* x * (1/255) in float32), so their tensors can differ in the last bit.
\* They take the same steps, compute the same resize shapes, end with the
\* same exit status or fail at the same step, and save images of the same
\* size; the saved images are equal whenever the tensors given to the model
\* are equal.
C9_SameStepsAndShapes ==
    SameDecodedInputs =>
        /\ SameProgress
        /\ (/\ BothTerminated
            /\ run["conversion"].content_image = run["tensorflow"].content_image
            /\ run["conversion"].style_image = run["tensorflow"].style_image) =>
               run["conversion"].out = run["tensorflow"].out

\* both runs finished on the same inputs with content tensors that differ
C9_Witness ==
    /\ SameDecodedInputs
    /\ \A v \in Variants : run[v].pc = "done"
    /\ run["conversion"].content_image # run["tensorflow"].content_image
    /\ run["conversion"].content_image.shape = run["tensorflow"].content_image.shape

\* C10 as stated: for every decoded image with height and width >= 1 and
\* both max_dim values, the computed resize shape has height and width >= 1.
C10_ShapeNeverZero ==
    LoadReturned =>
        \A i \in 1..2 : new_shape(SpatialShape(call.shape), call.max_dim)[i] >= 1

\* C10 amended: for every decoded image with height and width >= 1 and both
\* max_dim values, load_img either returns a tensor whose height and width
\* are both >= 1 or fails with an error; the computed resize shape has a 0
\* exactly when load_img fails (extreme aspect ratios, such as 1 x 2000 at
\* max_dim 1024), so no tensor with a zero-sized dimension is returned.
C10_NoDegenerateTensor ==
    LoadReturned =>
        LET ns == new_shape(SpatialShape(call.shape), call.max_dim)
        IN  /\ ret.ok => /\ ret.val.shape[2] >= 1 /\ ret.val.shape[3] >= 1
                         /\ ret.val.shape = <<1, ns[1], ns[2], 3>>
            /\ ~ret.ok <=> (\E i \in 1..2 : ns[i] = 0)
            /\ ~ret.ok => ret = Err("InvalidArgumentError: output dimensions must be positive")

\* load_img has failed on a 1 x 2000 image at max_dim 1024
C10_Witness ==
    /\ LoadReturned
    /\ call.shape = <<1, 2000, 3>> /\ call.max_dim = ContentMaxDim
    /\ ~ret.ok

====
